---- MODULE Spec2Model ----
(***************************************************************************)
(* Model of main.go of Ping-Test: a bubbletea program that fans out one    *)
(* ssh/ping probe per registered server, streams the TestResults through a *)
(* buffered channel and collects them in Model.Update.                     *)
(*                                                                         *)
(* Goroutines are modelled as interleaved actions: the bubbletea event     *)
(* loop (one Update per message), the command goroutines (runTests,        *)
(* CheckMoreResults, tea.Quit) and the probe goroutines of runTests.       *)
(* Strings are sequences of tokens, so that strings.Contains is a real     *)
(* sub-sequence search.  time.Now() timestamps are not modelled; `via`     *)
(* and `audit` are history fields that no Go struct holds, and sendOrder   *)
(* is a history variable.  Of the keys that textinput handles, "t" (the    *)
(* one key that both starts entry and is typed) and backspace are          *)
(* modelled.  After tea.Quit is returned the event loop may still hand     *)
(* MaxLateMsgs messages to Update before tea.QuitMsg arrives.              *)
(***************************************************************************)
EXTENDS Integers, Sequences, FiniteSets, TLC

\* ------------------------------------------------------------------ bounds
MaxServers == 2
MaxRuns == 2
MaxTyped == 1
MaxTicks == 1
MaxLateMsgs == 1

\* ------------------------------------------------------- program constants
\* ti.CharLimit = 15
CharLimit == 15
\* make(chan TestResult, 10) in initialModel
InitialChanCap == 10

\* strings.Contains(string(output), "100% packet loss")
LossMarker == <<"100%", "packet", "loss">>

\* Target labels of the two early returns of testServer
SSHConnectionLabel == <<"SSH Connection">>
SessionCreationLabel == <<"Session Creation">>

\* err.Error() of ssh.Dial and of client.NewSession
DialErrorText == <<"ssh:", "unable", "to", "authenticate">>
SessionErrorText == <<"ssh:", "session", "open", "failed">>

\* combined output of "ping -c 3 <target>" on the remote host
OutReply == <<"3", "received,", "0%", "packet", "loss">>
OutLoss == <<"0", "received,", "100%", "packet", "loss">>
Outputs == {OutReply, OutLoss}

\* err of session.CombinedOutput: nil, *ssh.ExitError (non-zero exit status),
\* or a transport-level error (*ssh.ExitMissingError, closed connection)
ExecErrs == {"nil", "exit", "transport"}

\* what one call of testServer meets: which step fails, and for an executed
\* command its error and output; logOk is whether logResult's open and
\* write succeed
Outcomes ==
    {[step |-> "dial", err |-> "dial", out |-> DialErrorText, logOk |-> TRUE],
     [step |-> "session", err |-> "session", out |-> SessionErrorText, logOk |-> TRUE]}
    \cup {[step |-> "exec", err |-> e, out |-> o, logOk |-> l] :
             e \in ExecErrs, o \in Outputs, l \in BOOLEAN}

VARIABLES
    servers,      \* Model.servers: the registry, server names 1..N
    results,      \* Model.results
    testing,      \* Model.testing
    inputting,    \* Model.inputting
    targetIP,     \* Model.targetIP
    textValue,    \* Model.textInput.Value()
    resultChan,   \* Model.resultChan: index into chans
    chans,        \* every channel made so far: [cap, buf, closed, readers]
    probes,       \* probes[c][s]: the goroutine of runTests for server s on channel c
    pendingRun,   \* runTests commands returned by Update and not yet run
    msgs,         \* TestResult messages returned by commands, not yet given to Update
    logFile,      \* network_tests.log: records in append order
    proc,         \* "up", "quitting" (tea.Quit returned), "exited", or a panic
    tableRows,    \* the rows of Model.table, as the last SetRows left them
    spinnerFrame, \* Model.spinner: the frames it has advanced
    lateMsgs,     \* messages Update has handled since it returned tea.Quit
    sendOrder     \* history: what the probes sent on resultChan, in send order

\* the widgets that only View reads
ui == <<tableRows, spinnerFrame>>

vars == <<servers, results, testing, inputting, targetIP, textValue, resultChan,
          chans, probes, pendingRun, msgs, logFile, proc, tableRows, spinnerFrame,
          lateMsgs, sendOrder>>

ClosePanic == "panic: close of closed channel"
SendPanic == "panic: send on closed channel"

\* ----------------------------------------------------------------- helpers

\* strings.Contains
Contains(s, sub) ==
    \E i \in 0..(Len(s) - Len(sub)) :
        \A j \in 1..Len(sub) : s[i + j] = sub[j]

\* Classify without the look at the output
Classify_ErrOnly(err, output) == err = "nil"

\* Classify that lets a non-zero exit status pass
Classify_IgnoreExit(err, output) ==
    err # "transport" /\ ~Contains(output, LossMarker)

\* success := err == nil && !strings.Contains(string(output), "100% packet loss")
Classify(err, output) == err = "nil" /\ ~Contains(output, LossMarker)

\* testServer whose early returns report the destination as Target
testServer_FailureKeepsTarget(srv, ip, o) ==
    [Server |-> srv, Target |-> ip,
     Success |-> IF o.step = "exec" THEN Classify(o.err, o.out) ELSE FALSE,
     Output |-> o.out]

\* the TestResult testServer returns for server srv and target ip on outcome o
testServer(srv, ip, o) ==
    IF o.step = "dial"
    THEN [Server |-> srv, Target |-> SSHConnectionLabel, Success |-> FALSE,
          Output |-> o.out]
    ELSE IF o.step = "session"
    THEN [Server |-> srv, Target |-> SessionCreationLabel, Success |-> FALSE,
          Output |-> o.out]
    ELSE [Server |-> srv, Target |-> ip, Success |-> Classify(o.err, o.out),
          Output |-> o.out]

\* whether testServer reaches its logResult call when it ends at step o.step
LogsResult(o) == o.step = "exec"

\* what became of the log record: no call of logResult, a record appended,
\* or os.OpenFile / WriteString failed
LogOutcome(o) ==
    IF ~LogsResult(o) THEN "none" ELSE IF o.logOk THEN "written" ELSE "failed"

\* the record logResult appends; by = <<channel, server>> names the invocation
LogEntry(r, c) ==
    [Server |-> r.Server, Target |-> r.Target, Success |-> r.Success,
     Output |-> r.Output, by |-> <<c, r.Server>>]

\* the value a probe sends: its TestResult, tagged with the channel it is sent
\* on and with whether logResult was called for it
Sent(p, c) ==
    [Server |-> p.res.Server, Target |-> p.res.Target, Success |-> p.res.Success,
     Output |-> p.res.Output, audit |-> LogsResult(p), via |-> c]

\* make(chan TestResult, n)
MakeChan(n) == [cap |-> n, buf |-> <<>>, closed |-> FALSE, readers |-> 0]

\* a channel one slot short of the number of servers
RunChanCap_OneLess(srvs) == IF Len(srvs) = 0 THEN 0 ELSE Len(srvs) - 1

\* make(chan TestResult, len(m.servers))
RunChanCap(srvs) == Len(srvs)

NoResult == [Server |-> 0, Target |-> <<>>, Success |-> FALSE, Output |-> <<>>]
\* a probe goroutine: where it is, the targetIP it captured, and once
\* testServer has returned, how it went (step, err, log) and what it returned
IdleProbe == [pc |-> "idle", target |-> <<>>, step |-> "none", err |-> "none",
              log |-> "none", res |-> NoResult]
DoneProbe == [IdleProbe EXCEPT !.pc = "done"]

Alive == proc \in {"up", "quitting"}

\* the event loop hands a message to Update: always while the program is up;
\* after Update returned tea.Quit, only the messages that reach the loop
\* before tea.QuitMsg does
EventLoopTakes ==
    /\ \/ proc = "up"
       \/ proc = "quitting" /\ lateMsgs < MaxLateMsgs
    /\ lateMsgs' = IF proc = "quitting" THEN lateMsgs + 1 ELSE lateMsgs

\* the rows the TestResult case builds from m.results, one per result in the
\* order of m.results: the Server column, and of the other columns only the
\* run the row's result was sent in
TableRows(rs) ==
    [i \in DOMAIN rs |-> [Server |-> rs[i].Server, via |-> rs[i].via]]

\* the re-arm test off by one: the last result is never asked for
MoreExpected_OffByOne(isTesting, rs, srvs) == isTesting /\ Len(rs) + 1 < Len(srvs)

\* m.testing && len(m.results) < len(m.servers)
MoreExpected(isTesting, rs, srvs) == isTesting /\ Len(rs) < Len(srvs)

\* the completion test with > for ==
AllIn_Greater(rs, srvs) == Len(rs) > Len(srvs)

\* len(m.results) == len(m.servers)
AllIn(rs, srvs) == Len(rs) = Len(srvs)

\* -------------------------------------------------------------------- Init

\* initialModel: servers read from servers.yaml, a channel of capacity 10
Init ==
    /\ servers \in {[i \in 1..n |-> i] : n \in 0..MaxServers}
    /\ results = <<>>
    /\ testing = FALSE
    /\ inputting = FALSE
    /\ targetIP = <<>>
    /\ textValue = <<>>
    /\ resultChan = 1
    /\ chans = <<MakeChan(InitialChanCap)>>
    /\ probes = <<[s \in DOMAIN servers |-> IdleProbe]>>
    /\ pendingRun = {}
    /\ msgs = {}
    /\ logFile = <<>>
    /\ proc = "up"
    /\ tableRows = <<>>
    /\ spinnerFrame = 0
    /\ lateMsgs = 0
    /\ sendOrder = <<>>

\* the process ends (main returns, or a panic): its memory, channels and
\* goroutines are gone; the registry file and the log file stay
ProcessEnds(how) ==
    /\ proc' = how
    /\ results' = <<>>
    /\ testing' = FALSE
    /\ inputting' = FALSE
    /\ targetIP' = <<>>
    /\ textValue' = <<>>
    /\ resultChan' = 1
    /\ chans' = <<MakeChan(InitialChanCap)>>
    /\ probes' = <<[s \in DOMAIN servers |-> IdleProbe]>>
    /\ pendingRun' = {}
    /\ msgs' = {}
    /\ tableRows' = <<>>
    /\ spinnerFrame' = 0
    /\ sendOrder' = <<>>
    /\ UNCHANGED <<servers, logFile>>

\* ------------------------------------------------- Update: tea.KeyMsg cases

\* the trailing `if m.inputting { m.textInput, cmd = m.textInput.Update(msg) }`
\* for a key that inserts rune k
TextInputInsert(k) ==
    IF inputting /\ Len(textValue) < CharLimit /\ Len(textValue) < MaxTyped
    THEN textValue' = Append(textValue, k)
    ELSE UNCHANGED textValue

\* case "ctrl+c", "q": close(m.resultChan); return m, tea.Quit
KeyQuit ==
    /\ EventLoopTakes
    /\ IF chans[resultChan].closed
       THEN ProcessEnds(ClosePanic)
       ELSE /\ chans' = [chans EXCEPT ![resultChan].closed = TRUE]
            /\ proc' = "quitting"
            /\ UNCHANGED <<servers, results, testing, inputting, targetIP,
                           textValue, resultChan, probes, pendingRun, msgs, logFile>>
            /\ UNCHANGED <<ui, sendOrder>>

\* tea.QuitMsg reaches the event loop: Run returns and main exits
QuitMsg ==
    /\ proc = "quitting"
    /\ ProcessEnds("exited")
    /\ lateMsgs' = 0

\* "t" that opens the destination entry during a run as well
KeyT_IgnoresTesting ==
    /\ EventLoopTakes
    /\ IF ~inputting
       THEN inputting' = TRUE /\ UNCHANGED textValue
       ELSE UNCHANGED inputting /\ TextInputInsert("t")
    /\ UNCHANGED <<servers, results, testing, targetIP, resultChan, chans,
                   probes, pendingRun, msgs, logFile, proc>>
    /\ UNCHANGED <<ui, sendOrder>>

\* case "t"
KeyT ==
    /\ EventLoopTakes
    /\ IF ~testing /\ ~inputting
       THEN inputting' = TRUE /\ UNCHANGED textValue
       ELSE UNCHANGED inputting /\ TextInputInsert("t")
    /\ UNCHANGED <<servers, results, testing, targetIP, resultChan, chans,
                   probes, pendingRun, msgs, logFile, proc>>
    /\ UNCHANGED <<ui, sendOrder>>

\* StartRun without `m.results = []TestResult{}`
StartRun_KeepResults ==
    /\ targetIP' = textValue
    /\ inputting' = FALSE
    /\ testing' = TRUE
    /\ results' = results
    /\ chans' = Append(chans, MakeChan(RunChanCap(servers)))
    /\ resultChan' = Len(chans) + 1
    /\ probes' = Append(probes, [s \in DOMAIN servers |-> IdleProbe])
    /\ pendingRun' = pendingRun \cup {[ch |-> Len(chans) + 1, target |-> textValue]}
    /\ sendOrder' = <<>>

\* the "enter" branch that starts a run
StartRun ==
    /\ targetIP' = textValue
    /\ inputting' = FALSE
    /\ testing' = TRUE
    /\ results' = <<>>
    /\ chans' = Append(chans, MakeChan(RunChanCap(servers)))
    /\ resultChan' = Len(chans) + 1
    /\ probes' = Append(probes, [s \in DOMAIN servers |-> IdleProbe])
    /\ pendingRun' = pendingRun \cup {[ch |-> Len(chans) + 1, target |-> textValue]}
    /\ sendOrder' = <<>>

\* "enter" without the test for an empty input
KeyEnter_NoEmptyCheck ==
    /\ EventLoopTakes
    /\ IF inputting
       THEN /\ Len(chans) <= MaxRuns
            /\ StartRun
       ELSE UNCHANGED <<results, testing, inputting, targetIP, resultChan, chans,
                        probes, pendingRun, sendOrder>>
    /\ UNCHANGED <<servers, textValue, msgs, logFile, proc>>
    /\ UNCHANGED ui

\* case "enter"
KeyEnter ==
    /\ EventLoopTakes
    /\ IF inputting /\ textValue # <<>>
       THEN /\ Len(chans) <= MaxRuns
            /\ StartRun
       ELSE UNCHANGED <<results, testing, inputting, targetIP, resultChan, chans,
                        probes, pendingRun, sendOrder>>
    /\ UNCHANGED <<servers, textValue, msgs, logFile, proc>>
    /\ UNCHANGED ui

\* "esc" that also drops the collected results
KeyEsc_ClearsResults ==
    /\ EventLoopTakes
    /\ inputting' = FALSE
    /\ results' = <<>>
    /\ UNCHANGED <<servers, testing, targetIP, textValue, resultChan,
                   chans, probes, pendingRun, msgs, logFile, proc>>
    /\ UNCHANGED <<ui, sendOrder>>

\* case "esc"
KeyEsc ==
    /\ EventLoopTakes
    /\ inputting' = FALSE
    /\ UNCHANGED <<servers, results, testing, targetIP, textValue, resultChan,
                   chans, probes, pendingRun, msgs, logFile, proc>>
    /\ UNCHANGED <<ui, sendOrder>>

\* backspace: no case of the switch, then textInput.Update deletes a rune
KeyBackspace ==
    /\ EventLoopTakes
    /\ IF inputting /\ textValue # <<>>
       THEN textValue' = SubSeq(textValue, 1, Len(textValue) - 1)
       ELSE UNCHANGED textValue
    /\ UNCHANGED <<servers, results, testing, inputting, targetIP, resultChan,
                   chans, probes, pendingRun, msgs, logFile, proc>>
    /\ UNCHANGED <<ui, sendOrder>>

\* ------------------------------------------------------ commands, goroutines

\* the tea.Cmd runTests returns: start one goroutine per server, then block
\* on <-resultChan
RunTestsCmd ==
    /\ Alive
    /\ UNCHANGED lateMsgs
    /\ \E cmd \in pendingRun :
        /\ pendingRun' = pendingRun \ {cmd}
        /\ probes' = [probes EXCEPT ![cmd.ch] =
                         [s \in DOMAIN servers |->
                             [IdleProbe EXCEPT !.pc = "test", !.target = cmd.target]]]
        /\ chans' = [chans EXCEPT ![cmd.ch].readers = @ + 1]
    /\ UNCHANGED <<servers, results, testing, inputting, targetIP, textValue,
                   resultChan, msgs, logFile, proc>>
    /\ UNCHANGED <<ui, sendOrder>>

\* result := testServer(srv, targetIP), logResult included
ProbeTest ==
    /\ Alive
    /\ UNCHANGED lateMsgs
    /\ \E c \in DOMAIN probes : \E s \in DOMAIN probes[c] : \E o \in Outcomes :
        /\ probes[c][s].pc = "test"
        /\ LET r == testServer(servers[s], probes[c][s].target, o) IN
            /\ probes' = [probes EXCEPT ![c][s] =
                             [pc |-> "send", target |-> @.target, step |-> o.step,
                              err |-> o.err, log |-> LogOutcome(o), res |-> r]]
            /\ logFile' = IF LogOutcome(o) = "written"
                          THEN Append(logFile, LogEntry(r, c))
                          ELSE logFile
    /\ UNCHANGED <<servers, results, testing, inputting, targetIP, textValue,
                   resultChan, chans, pendingRun, msgs, proc>>
    /\ UNCHANGED <<ui, sendOrder>>

\* resultChan <- result
ProbeSend ==
    /\ Alive
    /\ UNCHANGED lateMsgs
    /\ \E c \in DOMAIN probes : \E s \in DOMAIN probes[c] :
        /\ probes[c][s].pc = "send"
        /\ IF chans[c].closed
           THEN ProcessEnds(SendPanic)
           ELSE /\ Len(chans[c].buf) < chans[c].cap
                /\ chans' = [chans EXCEPT ![c].buf = Append(@, Sent(probes[c][s], c))]
                /\ probes' = [probes EXCEPT ![c][s] = DoneProbe]
                /\ sendOrder' = IF c = resultChan
                                 THEN Append(sendOrder, Sent(probes[c][s], c))
                                 ELSE sendOrder
                /\ UNCHANGED <<servers, results, testing, inputting, targetIP,
                               textValue, resultChan, pendingRun, msgs, logFile, proc>>
                /\ UNCHANGED ui

\* `if result, ok := <-resultChan; ok { return result }; return nil` of
\* runTests and CheckMoreResults; a nil message is dropped by the event loop
Receive ==
    /\ Alive
    /\ UNCHANGED lateMsgs
    /\ \E c \in DOMAIN chans :
        /\ chans[c].readers > 0
        /\ IF chans[c].buf # <<>>
           THEN /\ msgs' = msgs \cup {Head(chans[c].buf)}
                /\ chans' = [chans EXCEPT ![c].buf = Tail(@), ![c].readers = @ - 1]
           ELSE /\ chans[c].closed
                /\ chans' = [chans EXCEPT ![c].readers = @ - 1]
                /\ UNCHANGED msgs
    /\ UNCHANGED <<servers, results, testing, inputting, targetIP, textValue,
                   resultChan, probes, pendingRun, logFile, proc>>
    /\ UNCHANGED <<ui, sendOrder>>

\* Update, case TestResult
UpdateTestResult ==
    /\ EventLoopTakes
    /\ \E msg \in msgs :
        /\ msgs' = msgs \ {msg}
        /\ results' = Append(results, msg)
        /\ tableRows' = TableRows(results')
        /\ IF MoreExpected(testing, results', servers)
           THEN /\ chans' = [chans EXCEPT ![resultChan].readers = @ + 1]
                /\ UNCHANGED testing
           ELSE /\ testing' = IF AllIn(results', servers) THEN FALSE ELSE testing
                /\ UNCHANGED chans
    /\ UNCHANGED <<servers, inputting, targetIP, textValue, resultChan, probes,
                   pendingRun, logFile, proc, spinnerFrame, sendOrder>>

\* a tick handled as if it were a result: it re-arms the stream read
UpdateTick_ReArms ==
    /\ EventLoopTakes
    /\ spinnerFrame < MaxTicks
    /\ spinnerFrame' = spinnerFrame + 1
    /\ chans' = [chans EXCEPT ![resultChan].readers = @ + 1]
    /\ UNCHANGED <<servers, results, testing, inputting, targetIP, textValue,
                   resultChan, probes, pendingRun, msgs, logFile, proc,
                   tableRows, sendOrder>>

\* Update, case spinner.TickMsg: m.spinner, cmd = m.spinner.Update(msg);
\* return m, cmd
UpdateTick ==
    /\ EventLoopTakes
    /\ spinnerFrame < MaxTicks
    /\ spinnerFrame' = spinnerFrame + 1
    /\ UNCHANGED <<servers, results, testing, inputting, targetIP, textValue,
                   resultChan, chans, probes, pendingRun, msgs, logFile, proc,
                   tableRows, sendOrder>>

Next ==
    \/ KeyQuit
    \/ QuitMsg
    \/ KeyT
    \/ KeyEnter
    \/ KeyEsc
    \/ KeyBackspace
    \/ RunTestsCmd
    \/ ProbeTest
    \/ ProbeSend
    \/ Receive
    \/ UpdateTestResult
    \/ UpdateTick

Spec == Init /\ [][Next]_vars

\* The operator never presses q / ctrl+c, every command goroutine and every
\* probe goroutine is scheduled, and every remote call returns.
NextNoQuit ==
    \/ KeyT
    \/ KeyEnter
    \/ KeyEsc
    \/ KeyBackspace
    \/ RunTestsCmd
    \/ ProbeTest
    \/ ProbeSend
    \/ Receive
    \/ UpdateTestResult
    \/ UpdateTick

Fairness ==
    /\ WF_vars(RunTestsCmd)
    /\ WF_vars(ProbeTest)
    /\ WF_vars(ProbeSend)
    /\ WF_vars(Receive)
    /\ WF_vars(UpdateTestResult)

LiveSpec == Init /\ [][NextNoQuit]_vars /\ Fairness

\* ------------------------------------------------------------------ modes
\* the four modes, as Model.View tells them apart
AwaitingDestination == Alive /\ inputting
Running == Alive /\ ~inputting /\ testing
Complete == Alive /\ ~inputting /\ ~testing /\ Len(results) > 0
Idle == Alive /\ ~inputting /\ ~testing /\ Len(results) = 0

\* ---------------------------------------------------------------- summary
\* the summary line of Model.View

\* the summary shown as soon as there is a result
SummaryShown_WhileTesting == Len(results) > 0

\* if len(m.results) > 0 && !m.testing
SummaryShown == Len(results) > 0 /\ ~testing

\* successCount: the results r of rs with r.Success
SuccessCount(rs) == Cardinality({i \in DOMAIN rs : rs[i].Success})

\* "Summary: %d/%d tests passed", successCount, len(m.results)
Summary == [passed |-> SuccessCount(results), total |-> Len(results)]

\* ----------------------------------------------------------------- claims

\* number of collected results of server name n
CollectedOf(n) == Cardinality({i \in DOMAIN results : results[i].Server = n})

OnePerHost ==
    /\ Len(results) = Len(servers)
    /\ \A s \in DOMAIN servers : CollectedOf(servers[s]) = 1

\* C1: when no quit key is pressed and every probe returns, a started run
\* eventually holds exactly N collected results, one for each server of the
\* registry, and at no time holds two results of one server.
C1_AllCollected ==
    /\ [](\A s \in DOMAIN servers : CollectedOf(servers[s]) <= 1)
    /\ (testing ~> OnePerHost)

C1_Witness ==
    /\ Len(servers) = 2
    /\ OnePerHost
    /\ ~testing
    /\ Len(chans) = 3

\* every TestResult that left a probe and is still held by the program: the
\* buffers of the channels, the messages on their way to Update, Model.results
BufferedOn(c) == {chans[c].buf[i] : i \in DOMAIN chans[c].buf}
Buffered == UNION {BufferedOn(c) : c \in DOMAIN chans}
Collected == {results[i] : i \in DOMAIN results}
InFlight == Buffered \cup msgs \cup Collected

\* the runTests command of channel c has not started its goroutines yet
Unlaunched(c) == \E cmd \in pendingRun : cmd.ch = c

\* C2: no probe is ever about to send its result on a stream that the quit
\* key has closed (the stream of a run is not closed before its probes sent).
C2_NoSendOnClosed ==
    \A c \in DOMAIN probes : \A s \in DOMAIN probes[c] :
        probes[c][s].pc = "send" => ~chans[c].closed

\* C3 as stated, for a registry of at least one server: the mode is Complete
\* exactly when the collected count equals the number of servers, and a
\* Complete run never goes back to Running.
C3_CompleteIffAllCollected ==
    /\ [](Len(servers) > 0 => (Complete <=> Len(results) = Len(servers)))
    /\ [][Complete => ~Running']_vars

\* C3, amended: Complete implies that the collected count equals the number of
\* servers, and Running with at least one server implies that it is below it;
\* a Complete run never goes back to Running, and Running is entered only
\* from AwaitingDestination with a non-empty destination.
C3_CompleteOnlyIfAllCollected ==
    /\ [](Complete => Len(results) = Len(servers))
    /\ []((Running /\ Len(servers) > 0) => Len(results) < Len(servers))
    /\ [][Complete => ~Running']_vars
    /\ [][(~Running /\ Running') => (AwaitingDestination /\ textValue # <<>>)]_vars

C3_Witness ==
    /\ Complete
    /\ Len(servers) = 2
    /\ Len(chans) = 3

\* C4: confirming a destination empties the collected sequence and makes a
\* new, open, empty stream that no earlier run used, leaving the earlier
\* streams as they are; and every collected result was sent on the stream of
\* the current run.
C4_FreshStreamPerRun ==
    /\ [](\A i \in DOMAIN results : results[i].via = resultChan)
    /\ [][(AwaitingDestination /\ Running') =>
            /\ results' = <<>>
            /\ resultChan' \notin DOMAIN chans
            /\ resultChan' \in DOMAIN chans'
            /\ chans'[resultChan'].buf = <<>>
            /\ ~chans'[resultChan'].closed
            /\ \A c \in DOMAIN chans : chans'[c] = chans[c]]_vars

C4_Witness ==
    /\ Len(chans) = 3
    /\ resultChan = 3
    /\ testing
    /\ Len(results) = 1
    /\ chans[3].buf # <<>>

\* C5: a run's stream has as many slots as the run has probes, it never holds
\* more results than slots, and a probe that is about to send finds a free slot.
C5_SendNeverBlocks ==
    \A c \in DOMAIN chans :
        /\ Len(chans[c].buf) <= chans[c].cap
        /\ c > 1 => chans[c].cap = Len(servers)
        /\ (c > 1 /\ ~Unlaunched(c)) =>
              \A s \in DOMAIN probes[c] : probes[c][s].pc # "idle"
        /\ \A s \in DOMAIN probes[c] :
              probes[c][s].pc = "send" => Len(chans[c].buf) < chans[c].cap

C5_Witness ==
    \E c \in DOMAIN chans :
        /\ c > 1
        /\ chans[c].cap = 2
        /\ Len(chans[c].buf) = 1
        /\ \E s \in DOMAIN probes[c] : probes[c][s].pc = "send"

\* number of results of server s sent on channel c that the program holds
HeldOf(c, s) ==
    Cardinality({i \in DOMAIN chans[c].buf :
                    chans[c].buf[i].via = c /\ chans[c].buf[i].Server = servers[s]})
    + Cardinality({m \in msgs : m.via = c /\ m.Server = servers[s]})
    + Cardinality({i \in DOMAIN results :
                    results[i].via = c /\ results[i].Server = servers[s]})

\* a result of one of the two early returns of testServer
FailureShaped(r, destination) ==
    /\ ~r.Success
    /\ \/ r.Target = SSHConnectionLabel /\ r.Output = DialErrorText
       \/ r.Target = SessionCreationLabel /\ r.Output = SessionErrorText
    /\ r.Target # destination

\* C6: a probe has sent nothing before its send and exactly one result after
\* it, on every outcome path; a connection or session failure gives a result
\* with Success false, the error text and a label in place of the destination;
\* and with failures among them every probe still sends and the run still
\* becomes Complete.
C6_OneResultPerProbe ==
    /\ [](\A c \in DOMAIN probes : \A s \in DOMAIN probes[c] :
            /\ probes[c][s].pc \in {"idle", "test", "send"} => HeldOf(c, s) = 0
            /\ (probes[c][s].pc = "done" /\ c = resultChan) => HeldOf(c, s) = 1
            /\ (probes[c][s].pc = "send" /\ probes[c][s].step # "exec") =>
                  FailureShaped(probes[c][s].res, probes[c][s].target))
    /\ [](\A r \in InFlight : ~r.audit => FailureShaped(r, targetIP))
    /\ [][\A c \in DOMAIN probes : \A s \in DOMAIN probes[c] :
            (probes[c][s].pc = "send" /\ c \in DOMAIN probes'
                /\ probes'[c][s].pc = "done") =>
               chans'[c].buf = Append(chans[c].buf, Sent(probes[c][s], c))]_vars
    /\ \A s \in 1..MaxServers :
          (s \in DOMAIN servers /\ probes[resultChan][s].pc = "test")
             ~> (s \in DOMAIN servers /\ probes[resultChan][s].pc = "done")
    /\ (Running /\ Len(servers) > 0) ~> Complete

C6_Witness ==
    /\ Complete
    /\ Len(servers) = 2
    /\ \E i \in DOMAIN results : results[i].Target = SSHConnectionLabel
    /\ \E i \in DOMAIN results : results[i].Target = SessionCreationLabel

\* the probes whose testServer call ran the ping command and has returned
Executed ==
    {cs \in {<<c, s>> : c \in DOMAIN probes, s \in DOMAIN servers} :
        probes[cs[1]][cs[2]].pc = "send" /\ probes[cs[1]][cs[2]].step = "exec"}

HasLossMarker(r) == Contains(r.Output, LossMarker)

\* C7: for an executed command, output holding the loss marker gives Success
\* false whatever the exit status, and Success true only comes without a
\* transport error and without the marker.
C7_LossMarkerFails ==
    /\ \A cs \in Executed :
        LET p == probes[cs[1]][cs[2]] IN
        /\ HasLossMarker(p.res) => ~p.res.Success
        /\ p.res.Success => (p.err # "transport" /\ ~HasLossMarker(p.res))
    /\ \A r \in InFlight : HasLossMarker(r) => ~r.Success

C7_Witness ==
    \E cs \in Executed :
        LET p == probes[cs[1]][cs[2]] IN
        /\ p.err = "nil"
        /\ HasLossMarker(p.res)
        /\ ~p.res.Success

\* C8 as stated: a command that ran without a transport error and whose output
\* lacks the loss marker gives Success true, also when it exited non-zero.
C8_ExitStatusIgnored ==
    \A cs \in Executed :
        LET p == probes[cs[1]][cs[2]] IN
        (p.err # "transport" /\ ~HasLossMarker(p.res)) => p.res.Success

\* C8, amended: a non-zero exit status does force failure: Success is true
\* exactly when CombinedOutput returned no error at all (exit status zero and
\* no transport error) and the output lacks the loss marker.
C8_ExitStatusFails ==
    \A cs \in Executed :
        LET p == probes[cs[1]][cs[2]] IN
        /\ p.err = "exit" => ~p.res.Success
        /\ p.res.Success <=> (p.err = "nil" /\ ~HasLossMarker(p.res))

C8_Witness ==
    \E cs \in Executed :
        LET p == probes[cs[1]][cs[2]] IN
        /\ p.err = "exit"
        /\ ~HasLossMarker(p.res)
        /\ ~p.res.Success

\* number of log records of the invocation for server s on channel c
RecordsOf(c, s) ==
    Cardinality({i \in DOMAIN logFile : logFile[i].by = <<c, servers[s]>>})

\* C9: when testServer returns, whatever its outcome, the log holds exactly
\* one record of that invocation (none only when writing it failed), and no
\* invocation ever has two.
C9_OneRecordPerInvocation ==
    \A c \in DOMAIN probes : \A s \in DOMAIN probes[c] :
        /\ RecordsOf(c, s) <= 1
        /\ (probes[c][s].pc = "send" /\ probes[c][s].log # "failed") =>
              RecordsOf(c, s) = 1

\* C10: a result is in the stream, on its way to Update or collected only
\* after logResult was called for it (its record written, or the write failed).
C10_LoggedBeforeSent ==
    \A r \in InFlight : r.audit

RECURSIVE SumReaders(_)
\* the goroutines blocked in, or about to execute, `<-resultChan` on the
\* channels 1..c
SumReaders(c) == IF c = 0 THEN 0 ELSE chans[c].readers + SumReaders(c - 1)

\* read requests that are outstanding: a runTests command still to run, a
\* goroutine at its receive, or a received result Update has not handled yet
OutstandingReads == Cardinality(pendingRun) + SumReaders(Len(chans)) + Cardinality(msgs)

\* C11: at most one read request is outstanding at any time, it is on the
\* stream of the current run, and none is outstanding once the collected
\* count equals the number of servers.
C11_OneReadAtATime ==
    /\ OutstandingReads <= 1
    /\ \A c \in DOMAIN chans :
          chans[c].readers > 0 => (c = resultChan /\ Len(results) < Len(servers))

\* C12: the number of collected results never exceeds the number of
\* registered servers, whatever keys, ticks and results arrive and however
\* many runs follow one another.
C12_CollectedAtMostExpected == Len(results) <= Len(servers)

C12_Witness ==
    /\ Len(servers) = 2
    /\ Len(results) = 2
    /\ resultChan = 3
    /\ spinnerFrame = 1
    /\ inputting

\* s is an initial part of t
IsPrefix(s, t) == Len(s) <= Len(t) /\ SubSeq(t, 1, Len(s)) = s

\* the collected results are the first results sent on the current stream
CollectedInSendOrder == IsPrefix(results, sendOrder)

\* the rows of the table are the rows of the first results sent on the
\* current stream
RowsInSendOrder == IsPrefix(tableRows, TableRows(sendOrder))

\* within a run, handling a message only ever adds to the end of the
\* collected sequence
CollectedOnlyGrows ==
    [][(resultChan' = resultChan /\ proc' \in {"up", "quitting"}) =>
          IsPrefix(results, results')]_vars

\* C13: the collected sequence and the rendered rows are always a prefix of
\* the send order of the current run's stream, and within a run no collected
\* result is reordered, overwritten or removed.
C13_AppliedInSendOrder ==
    /\ [](CollectedInSendOrder /\ RowsInSendOrder)
    /\ CollectedOnlyGrows

\* C14: handling a tick, in any mode, leaves the collected results, the
\* registry, the testing and inputting flags, the current stream and every
\* channel as they are, and issues no stream read: no reader is added, no
\* command is pending and no result message is produced or consumed.
C14_TickIsNotAResult ==
    [][spinnerFrame' > spinnerFrame =>
          UNCHANGED <<results, servers, testing, inputting, resultChan, chans,
                      pendingRun, msgs, probes, tableRows, targetIP>>]_vars

C14_Witness ==
    /\ Running
    /\ spinnerFrame = 1
    /\ Len(servers) = 2
    /\ Len(results) = 1
    /\ chans[resultChan].readers = 1

\* a step that starts a run: a channel is made, a runTests command is
\* returned, or the mode becomes Running
RunStarts ==
    \/ Len(chans') > Len(chans)
    \/ pendingRun' \ pendingRun # {}
    \/ ~Running /\ Running'

\* C15: a run starts only from AwaitingDestination with a non-empty
\* destination in the input, and that destination becomes the target; the
\* confirm key with an empty input, or in Idle, Running or Complete, launches
\* no probe and leaves mode, collected results and stream unchanged.
C15_StartOnlyFromEntry ==
    /\ [][RunStarts =>
            /\ AwaitingDestination
            /\ textValue # <<>>
            /\ Running'
            /\ targetIP' = textValue
            /\ Len(chans') = Len(chans) + 1
            /\ pendingRun' = pendingRun \cup {[ch |-> resultChan', target |-> textValue]}]_vars
    /\ [][(KeyEnter /\ ~(AwaitingDestination /\ textValue # <<>>)) =>
            UNCHANGED <<results, testing, inputting, targetIP, resultChan, chans,
                        probes, pendingRun, tableRows>>]_vars

C15_Witness ==
    /\ Running
    /\ pendingRun # {}
    /\ targetIP = textValue
    /\ textValue # <<>>
    /\ Len(chans) = 3
    /\ Len(servers) = 2

\* the servers of the registry whose collected result is a success
PassedServers ==
    {s \in DOMAIN servers :
        \E i \in DOMAIN results : results[i].Server = servers[s] /\ results[i].Success}

\* a probe goroutine that has not sent yet, or a runTests command still to run
ProbesLive ==
    \/ pendingRun # {}
    \/ \E c \in DOMAIN probes : \E s \in DOMAIN probes[c] :
          probes[c][s].pc \in {"test", "send"}

\* C16: the summary line is shown only when no run is in progress, and in
\* Complete it is shown and reads passed/total with passed the number of
\* servers whose result is a success and total the number of servers.
C16_SummaryWhenComplete ==
    /\ (Alive /\ SummaryShown) => (~Running /\ ~testing /\ ~ProbesLive)
    /\ Complete =>
          /\ SummaryShown
          /\ Summary.total = Len(servers)
          /\ Summary.passed = Cardinality(PassedServers)
          /\ Summary.passed <= Summary.total

C16_Witness ==
    /\ Complete
    /\ Len(servers) = 2
    /\ Summary = [passed |-> 1, total |-> 2]
    /\ \E i \in DOMAIN results :
          /\ results[i].Target = SSHConnectionLabel
          /\ results[i].Output = DialErrorText

\* C17: when no quit key is pressed and every probe returns, every run that
\* is Running eventually becomes Complete, whatever the size of the
\* registry, and the testing flag, which disables the start key, is
\* eventually cleared.
C17_EveryRunCompletes ==
    /\ Running ~> Complete
    /\ testing ~> ~testing

\* the probe goroutines that have started and have not sent yet
LiveProbes ==
    {cs \in {<<c, s>> : c \in DOMAIN probes, s \in DOMAIN servers} :
        probes[cs[1]][cs[2]].pc \in {"test", "send"}}

\* the runs in flight: their runTests command is still to run, or one of
\* their probes is live
RunsInFlight ==
    {c \in DOMAIN probes : Unlaunched(c) \/ \E s \in DOMAIN servers : <<c, s>> \in LiveProbes}

\* C18: at most one run is in flight and it is the current one, the live
\* probes never outnumber the servers, a run starts only when no probe of an
\* earlier run is live, and the start key in Running or AwaitingDestination
\* starts nothing and leaves mode, results and stream as they are.
C18_OneRunInFlight ==
    /\ [](/\ Cardinality(RunsInFlight) <= 1
          /\ RunsInFlight \subseteq {resultChan}
          /\ Cardinality(LiveProbes) <= Len(servers))
    /\ [][RunStarts => ~ProbesLive]_vars
    /\ [][(KeyT /\ (Running \/ AwaitingDestination)) =>
            UNCHANGED <<results, testing, inputting, targetIP, resultChan, chans,
                        probes, pendingRun>>]_vars

C18_Witness ==
    /\ Running
    /\ resultChan = 3
    /\ Len(servers) = 2
    /\ Cardinality(LiveProbes) = 2
    /\ RunsInFlight = {3}

\* C19: no execution closes a closed channel: the process never dies of
\* `close of closed channel`, also when a second quit key is handled before
\* the program has terminated.
C19_ClosedAtMostOnce == proc # ClosePanic

\* C20: esc launches no probe and leaves the collected results, the
\* channels, the stored destination and the testing flag as they are; in
\* AwaitingDestination it gives Idle when nothing is collected and Complete
\* otherwise, which is the mode entry began in, since entry begins only with
\* testing off and nothing changes the results during entry; in any other
\* mode it changes nothing.
C20_EscOnlyLeavesEntry ==
    /\ [][KeyEsc =>
            /\ UNCHANGED <<results, testing, targetIP, resultChan, chans, probes,
                           pendingRun, msgs, tableRows, textValue>>
            /\ AwaitingDestination => (IF results = <<>> THEN Idle' ELSE Complete')
            /\ ~AwaitingDestination => UNCHANGED inputting]_vars
    /\ [](AwaitingDestination => (~testing /\ ~ProbesLive))
    /\ [][(~AwaitingDestination /\ AwaitingDestination') => (Idle \/ Complete)]_vars
    /\ [][(AwaitingDestination /\ AwaitingDestination') =>
            UNCHANGED <<results, testing>>]_vars

C20_Witness ==
    /\ Complete
    /\ textValue = <<>>
    /\ targetIP # <<>>
    /\ Len(servers) = 2
    /\ Len(results) = 2

====
